---- MODULE Spec2Model ----
(***************************************************************************)
(* A model of the Steam Digest Bot: the snapshot store and the diff engine *)
(* of src/diff.py, the fetch glue of src/fetch.py and the orchestration of *)
(* src/main.py.                                                            *)
(*                                                                         *)
(* Python values are modelled as follows.  A dict whose iteration order    *)
(* matters (a snapshot, a user's games, a played map) is a sequence of     *)
(* records [k |-> key, v |-> value] with distinct keys, in insertion       *)
(* order.  A list is a sequence.  A str is a string, an int an integer.    *)
(* The empty dict and the empty list are both << >>.                       *)
(***************************************************************************)
EXTENDS Integers, Sequences, FiniteSets, TLC

(***************************************************************************)
(* dict primitives                                                         *)
(***************************************************************************)
Has(d, key) == \E i \in 1..Len(d) : d[i].k = key

Get(d, key, dflt) ==
    IF Has(d, key) THEN d[CHOOSE i \in 1..Len(d) : d[i].k = key].v ELSE dflt

Put(d, key, val) ==
    IF Has(d, key)
    THEN [i \in 1..Len(d) |-> IF d[i].k = key THEN [k |-> key, v |-> val] ELSE d[i]]
    ELSE Append(d, [k |-> key, v |-> val])

KeySet(d) == {d[i].k : i \in 1..Len(d)}

ListSet(l) == {l[i] : i \in 1..Len(l)}

Truthy(d) == Len(d) > 0

(***************************************************************************)
(* JSON text.  A file's content is a sequence of tokens; whitespace and    *)
(* indentation are not represented.  BadByte stands for bytes that do not  *)
(* decode in the locale's text encoding.                                   *)
(***************************************************************************)
Tok(c) == [t |-> c]

TStr(x) == [t |-> "str", s |-> x]

TNum(x) == [t |-> "num", n |-> x]

BadByte == [t |-> "bad"]

(* json.dump of a snapshot-shaped value: the value's Python type is fixed  *)
(* by its place in the snapshot (level) and, in a record, by its key.      *)
RECURSIVE DumpStrs(_, _)
DumpStrs(l, i) ==
    IF i > Len(l) THEN << >>
    ELSE (IF i > 1 THEN <<Tok(",")>> ELSE << >>) \o <<TStr(l[i])>> \o DumpStrs(l, i + 1)

DumpList(l) == <<Tok("[")>> \o DumpStrs(l, 1) \o <<Tok("]")>>

RECURSIVE DumpMembers(_, _, _)
RECURSIVE DumpValue(_, _, _)
DumpDict(d, level) == <<Tok("{")>> \o DumpMembers(d, 1, level) \o <<Tok("}")>>

DumpValue(level, key, val) ==
    CASE level = "snapshot" -> DumpDict(val, "user")
      [] level = "user" -> IF key = "games" THEN DumpDict(val, "games") ELSE <<TStr(val)>>
      [] level = "games" -> DumpDict(val, "game")
      [] level = "game" ->
            IF key = "achievements" THEN DumpList(val)
            ELSE IF key = "app_id" THEN <<TStr(val)>> ELSE <<TNum(val)>>

DumpMembers(d, i, level) ==
    IF i > Len(d) THEN << >>
    ELSE (IF i > 1 THEN <<Tok(",")>> ELSE << >>)
         \o <<TStr(d[i].k), Tok(":")>> \o DumpValue(level, d[i].k, d[i].v)
         \o DumpMembers(d, i + 1, level)

JsonDump(snapshot) == DumpDict(snapshot, "snapshot")

(* json.loads: a recursive-descent parser.  A parse result is              *)
(* [ok, v, rest]; a failed parse is JSONDecodeError.                       *)
ParseFail == [ok |-> FALSE, v |-> << >>, rest |-> << >>]

ParseOk(val, rest) == [ok |-> TRUE, v |-> val, rest |-> rest]

HeadIs(ts, c) == Len(ts) > 0 /\ ts[1].t = c

RECURSIVE ParseValue(_)
RECURSIVE ParseMembers(_, _)
RECURSIVE ParseElements(_, _)
ParseValue(ts) ==
    IF Len(ts) = 0 THEN ParseFail
    ELSE CASE ts[1].t = "str" -> ParseOk(ts[1].s, Tail(ts))
           [] ts[1].t = "num" -> ParseOk(ts[1].n, Tail(ts))
           [] ts[1].t = "{" ->
                IF HeadIs(Tail(ts), "}") THEN ParseOk(<< >>, Tail(Tail(ts)))
                ELSE ParseMembers(Tail(ts), << >>)
           [] ts[1].t = "[" ->
                IF HeadIs(Tail(ts), "]") THEN ParseOk(<< >>, Tail(Tail(ts)))
                ELSE ParseElements(Tail(ts), << >>)
           [] OTHER -> ParseFail

(* ts starts at a member "key : value"; acc holds the members read so far  *)
ParseMembers(ts, acc) ==
    IF ~(Len(ts) >= 2 /\ ts[1].t = "str" /\ ts[2].t = ":") THEN ParseFail
    ELSE LET r == ParseValue(Tail(Tail(ts))) IN
         IF ~r.ok THEN ParseFail
         ELSE LET acc2 == Put(acc, ts[1].s, r.v) IN
              IF HeadIs(r.rest, "}") THEN ParseOk(acc2, Tail(r.rest))
              ELSE IF HeadIs(r.rest, ",") THEN ParseMembers(Tail(r.rest), acc2)
              ELSE ParseFail

ParseElements(ts, acc) ==
    LET r == ParseValue(ts) IN
    IF ~r.ok THEN ParseFail
    ELSE LET acc2 == Append(acc, r.v) IN
         IF HeadIs(r.rest, "]") THEN ParseOk(acc2, Tail(r.rest))
         ELSE IF HeadIs(r.rest, ",") THEN ParseElements(Tail(r.rest), acc2)
         ELSE ParseFail

(* json.loads rejects text left after the value ("Extra data")             *)
JsonLoads(ts) ==
    LET r == ParseValue(ts) IN
    IF r.ok /\ Len(r.rest) = 0 THEN r ELSE ParseFail

(* f.read() in text mode: undecodable bytes raise UnicodeDecodeError       *)
Decodes(ts) == \A i \in 1..Len(ts) : ts[i].t # "bad"

(***************************************************************************)
(* src/diff.py: calculate_daily_diff                                       *)
(*                                                                         *)
(* A user's diff is the record                                             *)
(*   [played, achievements, total_minutes, new_games, games_played];       *)
(* played and achievements are dicts keyed by game name, new_games a list. *)
(***************************************************************************)
EmptyUserDiff ==
    [played |-> << >>, achievements |-> << >>, total_minutes |-> 0,
     new_games |-> << >>, games_played |-> 0]

(* list(a_set): the elements in some order (Python leaves it unspecified)  *)
RECURSIVE SetToList(_)
SetToList(S) ==
    IF S = {} THEN << >>
    ELSE LET x == CHOOSE y \in S : TRUE IN <<x>> \o SetToList(S \ {x})

(* lines 58-68 with the guard "not previous" of line 66 left out           *)
TimeDelta_AlwaysTwoWeeks(previous, game_data, previous_game) ==
    IF Get(game_data, "playtime_2weeks", 0) > 0
    THEN Get(game_data, "playtime_2weeks", 0)
    ELSE Get(game_data, "playtime_forever", 0) - Get(previous_game, "playtime_forever", 0)

(* lines 58-68 without the first-run fallback of lines 66-67               *)
TimeDelta_NoFallback(previous, game_data, previous_game) ==
    Get(game_data, "playtime_forever", 0) - Get(previous_game, "playtime_forever", 0)

(* lines 58-68: the minutes played since the last run                      *)
TimeDelta(previous, game_data, previous_game) ==
    LET current_playtime == Get(game_data, "playtime_forever", 0)
        previous_playtime == Get(previous_game, "playtime_forever", 0)
    IN  IF ~Truthy(previous) /\ Get(game_data, "playtime_2weeks", 0) > 0
        THEN Get(game_data, "playtime_2weeks", 0)
        ELSE current_playtime - previous_playtime

(* line 71 with "!= 0" for "> 0"                                           *)
CountsAsActivity_NonZero(time_delta) == time_delta # 0

(* line 71 with ">= 0" for "> 0"                                           *)
CountsAsActivity_NonNegative(time_delta) == time_delta >= 0

(* line 71: only a positive difference counts as activity                  *)
CountsAsActivity(time_delta) == time_delta > 0

(* lines 77-79 without the subtraction of the old achievements            *)
NewAchievements_AllCurrent(game_data, previous_game) ==
    Get(game_data, "achievements", << >>)

(* lines 77-79                                                             *)
NewAchievements(game_data, previous_game) ==
    SetToList(ListSet(Get(game_data, "achievements", << >>))
              \ ListSet(Get(previous_game, "achievements", << >>)))

(* line 85 with every game taken as new                                   *)
IsNewGame_Always(previous_games, game_name) == TRUE

(* line 85: the game is new when the user's old game mapping lacks it     *)
IsNewGame(previous_games, game_name) == ~Has(previous_games, game_name)

(* lines 56-86: one iteration of the loop over current_games               *)
DiffGame(ud, previous, previous_games, game_name, game_data) ==
    LET previous_game == Get(previous_games, game_name, << >>)
        time_delta == TimeDelta(previous, game_data, previous_game)
        new_achievements == NewAchievements(game_data, previous_game)
        ud1 == IF CountsAsActivity(time_delta)
               THEN [ud EXCEPT
                       !.played = Put(@, game_name, time_delta),
                       !.total_minutes = @ + time_delta,
                       !.games_played = @ + 1,
                       !.achievements =
                           IF Truthy(new_achievements)
                           THEN Put(@, game_name, new_achievements) ELSE @]
               ELSE ud
    IN  IF IsNewGame(previous_games, game_name)
        THEN [ud1 EXCEPT !.new_games = Append(@, game_name)]
        ELSE ud1

RECURSIVE DiffGames(_, _, _, _, _)
DiffGames(ud, previous, previous_games, current_games, i) ==
    IF i > Len(current_games) THEN ud
    ELSE DiffGames(DiffGame(ud, previous, previous_games,
                            current_games[i].k, current_games[i].v),
                   previous, previous_games, current_games, i + 1)

(* lines 42-86: the diff of one user of the current snapshot               *)
DiffUser(previous, current, username) ==
    LET current_user == Get(current, username, << >>)
        previous_user == Get(previous, username, << >>)
        current_games == Get(current_user, "games", << >>)
        previous_games == Get(previous_user, "games", << >>)
    IN  DiffGames(EmptyUserDiff, previous, previous_games, current_games, 1)

RECURSIVE DiffUsers(_, _, _, _)
DiffUsers(result, previous, current, i) ==
    IF i > Len(current) THEN result
    ELSE DiffUsers(Put(result, current[i].k, DiffUser(previous, current, current[i].k)),
                   previous, current, i + 1)

(* line 38 looping over the users of both snapshots                       *)
calculate_daily_diff_BothSnapshots(previous, current) ==
    DiffUsers(DiffUsers(<< >>, previous, previous, 1), previous, current, 1)

calculate_daily_diff(previous, current) == DiffUsers(<< >>, previous, current, 1)

(* lines 178-181 with "there are users" for "a user has minutes"           *)
HasActivity_AnyUser(daily_diff) == Len(daily_diff) > 0

(* lines 178-181 of generate_daily_report                                  *)
HasActivity(daily_diff) ==
    \E i \in 1..Len(daily_diff) : daily_diff[i].v.total_minutes > 0

(***************************************************************************)
(* src/diff.py: calculate_group_stats and generate_daily_report.           *)
(* None is << >> and a present optional value x is <<x>>.                  *)
(***************************************************************************)
None == << >>

Some(x) == <<x>>

(* max(d, key=...) taking the last key of maximal weight                  *)
RECURSIVE MaxLast(_, _, _, _)
MaxLast(d, w, best, i) ==
    IF i > Len(d) THEN d[best].k
    ELSE MaxLast(d, w, IF w[i] >= w[best] THEN i ELSE best, i + 1)

(* max(d, key=...): the first key, in iteration order, of maximal weight;   *)
(* w[i] is the key function's value for the i-th entry of d                *)
RECURSIVE MaxFirst(_, _, _, _)
MaxFirst(d, w, best, i) ==
    IF i > Len(d) THEN d[best].k
    ELSE MaxFirst(d, w, IF w[i] > w[best] THEN i ELSE best, i + 1)

(* lines 114-115 counting the games with achievements, not the ids        *)
SumAchievements_CountGames(achievements, i) == Len(achievements)

RECURSIVE SumAchievements(_, _)
SumAchievements(achievements, i) ==
    IF i > Len(achievements) THEN 0
    ELSE Len(achievements[i].v) + SumAchievements(achievements, i + 1)

(* lines 121-125: roll one user's played map into all_games_played         *)
RECURSIVE RollPlayed(_, _, _, _)
RollPlayed(all_games_played, username, played, i) ==
    IF i > Len(played) THEN all_games_played
    ELSE LET game_name == played[i].k
             old == Get(all_games_played, game_name,
                        [players |-> << >>, total_minutes |-> 0])
         IN  RollPlayed(Put(all_games_played, game_name,
                            [players |-> Append(old.players, username),
                             total_minutes |-> old.total_minutes + played[i].v]),
                        username, played, i + 1)

(* line 111 with "=" for "+="                                              *)
AddUserTotal_Overwrite(total_group_minutes, user_total) == user_total

(* line 111: stats['total_group_minutes'] += user_total                    *)
AddUserTotal(total_group_minutes, user_total) == total_group_minutes + user_total

(* line 118 with the set replaced, not updated                            *)
UpdateNewGames_Replace(all_new_games, new_games) == ListSet(new_games)

(* line 118: all_new_games.update(user_data['new_games'])                  *)
UpdateNewGames(all_new_games, new_games) == all_new_games \cup ListSet(new_games)

(* lines 108-125: the accumulators after the loop over the users           *)
RECURSIVE GroupLoop(_, _, _)
GroupLoop(acc, daily_diff, i) ==
    IF i > Len(daily_diff) THEN acc
    ELSE LET username == daily_diff[i].k
             user_data == daily_diff[i].v
         IN  GroupLoop(
               [total_group_minutes |->
                    AddUserTotal(acc.total_group_minutes, user_data.total_minutes),
                user_totals |-> Put(acc.user_totals, username, user_data.total_minutes),
                all_achievements |->
                    acc.all_achievements + SumAchievements(user_data.achievements, 1),
                all_new_games |-> UpdateNewGames(acc.all_new_games, user_data.new_games),
                all_games_played |->
                    RollPlayed(acc.all_games_played, username, user_data.played, 1)],
               daily_diff, i + 1)

(* lines 141-149 with "> 0" for "> 1" at line 148                          *)
RECURSIVE PlayedTogether_AnyPlayers(_, _)
PlayedTogether_AnyPlayers(all_games_played, i) ==
    IF i > Len(all_games_played) THEN << >>
    ELSE (IF Len(all_games_played[i].v.players) > 0
          THEN <<[name |-> all_games_played[i].k,
                  players |-> all_games_played[i].v.players,
                  total_minutes |-> all_games_played[i].v.total_minutes]>>
          ELSE << >>)
         \o PlayedTogether_AnyPlayers(all_games_played, i + 1)

(* lines 141-149                                                           *)
RECURSIVE PlayedTogether(_, _)
PlayedTogether(all_games_played, i) ==
    IF i > Len(all_games_played) THEN << >>
    ELSE (IF Len(all_games_played[i].v.players) > 1
          THEN <<[name |-> all_games_played[i].k,
                  players |-> all_games_played[i].v.players,
                  total_minutes |-> all_games_played[i].v.total_minutes]>>
          ELSE << >>)
         \o PlayedTogether(all_games_played, i + 1)

(* lines 155-162 with ">=" for ">" at line 156                             *)
RECURSIVE LongestInPlayed_LastOfTies(_, _, _, _)
LongestInPlayed_LastOfTies(st, username, played, j) ==
    IF j > Len(played) THEN st
    ELSE LongestInPlayed_LastOfTies(
           IF played[j].v >= st.longest_minutes
           THEN [longest_session |->
                     Some([player |-> username, game |-> played[j].k,
                           minutes |-> played[j].v]),
                 longest_minutes |-> played[j].v]
           ELSE st,
           username, played, j + 1)

(* lines 152-163: the scan for the longest single session; st is           *)
(* [longest_session, longest_minutes]                                      *)
RECURSIVE LongestInPlayed(_, _, _, _)
LongestInPlayed(st, username, played, j) ==
    IF j > Len(played) THEN st
    ELSE LongestInPlayed(
           IF played[j].v > st.longest_minutes
           THEN [longest_session |->
                     Some([player |-> username, game |-> played[j].k,
                           minutes |-> played[j].v]),
                 longest_minutes |-> played[j].v]
           ELSE st,
           username, played, j + 1)

RECURSIVE LongestLoop(_, _, _)
LongestLoop(st, daily_diff, i) ==
    IF i > Len(daily_diff) THEN st
    ELSE LongestLoop(LongestInPlayed(st, daily_diff[i].k, daily_diff[i].v.played, 1),
                     daily_diff, i + 1)

Identity(x) == x

(* line 133 with the number of players as the key                         *)
RolledMinutes_PlayerCount(g) == Len(g.players)

RolledMinutes(g) == g.total_minutes

(* line 128 with "some user has minutes" for "there are users"             *)
HasUserTotals_AnyMinutes(user_totals) ==
    \E i \in 1..Len(user_totals) : user_totals[i].v > 0

(* line 128: if user_totals                                                *)
HasUserTotals(user_totals) == Truthy(user_totals)

calculate_group_stats(daily_diff) ==
    LET acc == GroupLoop([total_group_minutes |-> 0, user_totals |-> << >>,
                          all_achievements |-> 0, all_new_games |-> {},
                          all_games_played |-> << >>], daily_diff, 1)
        most_played == MaxFirst(acc.all_games_played,
                                [i \in 1..Len(acc.all_games_played) |->
                                    RolledMinutes(acc.all_games_played[i].v)], 1, 1)
    IN  [total_group_minutes |-> acc.total_group_minutes,
         most_active_player |->
             IF HasUserTotals(acc.user_totals)
             THEN Some(MaxFirst(acc.user_totals,
                                [i \in 1..Len(acc.user_totals) |->
                                    Identity(acc.user_totals[i].v)], 1, 1))
             ELSE None,
         most_played_game |->
             IF Truthy(acc.all_games_played)
             THEN Some([name |-> most_played,
                        total_minutes |->
                            Get(acc.all_games_played, most_played, << >>).total_minutes,
                        players |-> Get(acc.all_games_played, most_played, << >>).players])
             ELSE None,
         games_played_together |-> PlayedTogether(acc.all_games_played, 1),
         longest_session |->
             LongestLoop([longest_session |-> None, longest_minutes |-> 0],
                         daily_diff, 1).longest_session,
         total_achievements |-> acc.all_achievements,
         new_games_discovered |-> SetToList(acc.all_new_games)]

(* line 172 with the two snapshots passed the other way round             *)
generate_daily_report_Swapped(current_snapshot, previous_snapshot) ==
    LET daily_diff == calculate_daily_diff(current_snapshot, previous_snapshot) IN
    [individual_stats |-> daily_diff,
     group_stats |-> calculate_group_stats(daily_diff),
     has_activity |-> HasActivity(daily_diff)]

generate_daily_report(current_snapshot, previous_snapshot) ==
    LET daily_diff == calculate_daily_diff(previous_snapshot, current_snapshot) IN
    [individual_stats |-> daily_diff,
     group_stats |-> calculate_group_stats(daily_diff),
     has_activity |-> HasActivity(daily_diff)]

(***************************************************************************)
(* src/diff.py: load_snapshot and save_snapshot.                           *)
(*                                                                         *)
(* A storage location is [dir, kind, data]: dir says whether the parent    *)
(* directory exists; kind is "absent", "file", "isdir" (a directory sits   *)
(* at the path) or "noperm" (a file the process may not open); data is the *)
(* content of a file.  A call's outcome is [exc, val]: exc is "none" when  *)
(* the call returns val and the exception's name when it raises.           *)
(***************************************************************************)
Returns(val) == [exc |-> "none", val |-> val]

Raises(e) == [exc |-> e, val |-> << >>]

AbsentFile == [kind |-> "absent", data |-> << >>]

RegularFile(ts) == [kind |-> "file", data |-> ts]

Location(dir, f) == [dir |-> dir, kind |-> f.kind, data |-> f.data]

FileAt(loc) == [kind |-> loc.kind, data |-> loc.data]

(* lines 12-20: only FileNotFoundError and JSONDecodeError are caught      *)
load_snapshot(loc) ==
    CASE ~loc.dir \/ loc.kind = "absent" -> Returns(<< >>)
      [] loc.kind = "isdir" -> Raises("IsADirectoryError")
      [] loc.kind = "noperm" -> Raises("PermissionError")
      [] OTHER ->
           IF ~Decodes(loc.data) THEN Raises("UnicodeDecodeError")
           ELSE LET r == JsonLoads(loc.data) IN
                IF r.ok THEN Returns(r.v) ELSE Returns(<< >>)

(* open(filepath, 'a'): the content stays and writes go after it           *)
OpenForAppend(loc) == [loc EXCEPT !.kind = "file"]

(* open(filepath, 'w'): the file is created or emptied                     *)
OpenForWrite(loc) == [loc EXCEPT !.kind = "file", !.data = << >>]

(* f.write(text) on an open file                                           *)
Write(loc, text) == [loc EXCEPT !.data = @ \o text]

NoFault == [at |-> "none", cut |-> 0]

Prefix(ts, n) == SubSeq(ts, 1, IF n < Len(ts) THEN n ELSE Len(ts))

(* lines 24-31: every exception is caught and logged; the call returns     *)
(* None either way.  fault names the step the environment makes fail       *)
(* ("mkdir", "open", "write"; a failed write leaves the first cut tokens). *)
(* The outcome is [loc, log]: the location afterwards and the line logged. *)
save_snapshot(snapshot, loc, fault) ==
    LET made == [loc EXCEPT !.dir = TRUE] IN
    CASE fault.at = "mkdir" -> [loc |-> loc, log |-> "error"]
      [] fault.at = "open" \/ made.kind \in {"isdir", "noperm"} ->
           [loc |-> made, log |-> "error"]
      [] fault.at = "write" ->
           [loc |-> Write(OpenForWrite(made), Prefix(JsonDump(snapshot), fault.cut)),
            log |-> "error"]
      [] OTHER ->
           [loc |-> Write(OpenForWrite(made), JsonDump(snapshot)), log |-> "saved"]

(***************************************************************************)
(* src/summarise.py: generate_summary and its helpers.  A text is          *)
(* represented by the name of the branch that builds it; "" is the empty   *)
(* string.  ai is what the Gemini call does: "text" (response.text holds   *)
(* words), "blank" (response.text holds only whitespace), "empty"          *)
(* (response.text is empty) or "raises".                                   *)
(***************************************************************************)
(* user_data['first_time_played'] on a user diff                           *)
LacksKey(user_data, key) == key \notin DOMAIN user_data

(* lines 39-57                                                             *)
format_report_for_ai(report) ==
    IF ~report.has_activity THEN Returns("no_activity_data")
    ELSE IF \E i \in 1..Len(report.individual_stats) :
                /\ report.individual_stats[i].v.total_minutes > 0
                /\ LacksKey(report.individual_stats[i].v, "first_time_played")
         THEN Raises("KeyError")
         ELSE Returns("activity_json")

(* lines 114-147                                                           *)
generate_fallback_summary(report) ==
    IF ~report.has_activity THEN Returns("no_activity_short")
    ELSE IF \E i \in 1..Len(report.individual_stats) :
                LacksKey(report.individual_stats[i].v, "first_time_played")
         THEN Raises("KeyError")
         ELSE Returns("fallback_digest")

(* lines 61-109                                                            *)
generate_summary(report, api_key, ai) ==
    IF ~report.has_activity THEN Returns("no_activity_today")
    ELSE IF api_key = "" THEN generate_fallback_summary(report)
    ELSE LET formatted_data == format_report_for_ai(report) IN
         IF formatted_data.exc # "none" THEN formatted_data
         ELSE IF ai = "text" THEN Returns("ai_text")
         ELSE IF ai = "blank" THEN Returns("")
         ELSE generate_fallback_summary(report)

(***************************************************************************)
(* src/fetch.py.  What the Steam API answers for one user is               *)
(*   [recent, owned, ach]                                                  *)
(* recent: None (the request failed), or Some([has_games, games]) with     *)
(*         games the list of the response's game entries;                  *)
(* owned:  None, or Some(games);                                           *)
(* ach:    None, or Some(list of [apiname, achieved]), for any game.       *)
(* A game entry is [appid, name, playtime_2weeks, playtime_forever].       *)
(***************************************************************************)
OwnedMinPlaytime == 30

AchievementsMinPlaytime == 60

(* lines 87-93 and 101-108: the lookup of relevant games keyed by app id   *)
RECURSIVE RecentLookup(_, _, _, _)
RecentLookup(acc, games, from_owned, i) ==
    IF i > Len(games) THEN acc
    ELSE LET game == games[i]
             keep == ~from_owned \/ game.playtime_forever > OwnedMinPlaytime
         IN  RecentLookup(
               IF keep
               THEN Put(acc, game.appid,
                        [name |-> game.name,
                         playtime_2weeks |-> IF from_owned THEN 0 ELSE game.playtime_2weeks,
                         playtime_forever |-> game.playtime_forever])
               ELSE acc,
               games, from_owned, i + 1)

(* lines 135-138                                                           *)
RECURSIVE Achieved(_, _)
Achieved(achs, i) ==
    IF i > Len(achs) THEN << >>
    ELSE (IF achs[i].achieved = 1 THEN <<achs[i].apiname>> ELSE << >>)
         \o Achieved(achs, i + 1)

(* lines 117-139                                                           *)
RECURSIVE ProcessGames(_, _, _, _)
ProcessGames(games, recent_games, api, i) ==
    IF i > Len(recent_games) THEN games
    ELSE LET app_id == recent_games[i].k
             game_data == recent_games[i].v
             wanted == game_data.playtime_2weeks > 0
                       \/ game_data.playtime_forever > AchievementsMinPlaytime
             achievements == IF wanted /\ api.ach # None
                             THEN Achieved(api.ach[1], 1) ELSE << >>
         IN  ProcessGames(
               Put(games, game_data.name,
                   <<[k |-> "app_id", v |-> app_id],
                     [k |-> "playtime_forever", v |-> game_data.playtime_forever],
                     [k |-> "playtime_2weeks", v |-> game_data.playtime_2weeks],
                     [k |-> "achievements", v |-> achievements]>>),
               recent_games, api, i + 1)

(* lines 68-142                                                            *)
fetch_user_snapshot(username, steam_id, api) ==
    LET recent_games ==
            IF api.recent # None /\ api.recent[1].has_games
            THEN RecentLookup(<< >>, api.recent[1].games, FALSE, 1)
            ELSE IF api.owned # None
                 THEN RecentLookup(<< >>, api.owned[1], TRUE, 1)
                 ELSE << >>
    IN  <<[k |-> "username", v |-> username],
          [k |-> "steam_id", v |-> steam_id],
          [k |-> "games", v |-> ProcessGames(<< >>, recent_games, api, 1)]>>

(* lines 144-152: users is config.users, apis the API's answer per user    *)
RECURSIVE FetchLoop(_, _, _, _)
FetchLoop(all_snapshots, users, apis, i) ==
    IF i > Len(users) THEN all_snapshots
    ELSE FetchLoop(Put(all_snapshots, users[i].k,
                       fetch_user_snapshot(users[i].k, users[i].v, apis[users[i].k])),
                   users, apis, i + 1)

fetch_all_users_snapshot(users, apis) == FetchLoop(<< >>, users, apis, 1)

(***************************************************************************)
(* src/config.py.  users_raw is the USERS variable split at the commas:    *)
(* an entry is [colon, username, steam_id], colon telling whether the      *)
(* entry holds a ':'.                                                      *)
(***************************************************************************)
RECURSIVE ParseUsers(_, _, _)
ParseUsers(users, users_raw, i) ==
    IF i > Len(users_raw) THEN users
    ELSE ParseUsers(IF users_raw[i].colon
                    THEN Put(users, users_raw[i].username, users_raw[i].steam_id)
                    ELSE users,
                    users_raw, i + 1)

(* lines 15-25: the attributes of the instance Config() constructs         *)
Config(users_raw) ==
    <<[k |-> "steam_api_key", v |-> "steam-key"],
      [k |-> "gemini_api_key", v |-> "gemini-key"],
      [k |-> "discord_webhook_url", v |-> "webhook-url"],
      [k |-> "users_raw", v |-> users_raw],
      [k |-> "users", v |-> ParseUsers(<< >>, users_raw, 1)]>>

(***************************************************************************)
(* src/send.py: post_to_discord; net is what the webhook request does      *)
(***************************************************************************)
post_to_discord(message, webhook_url, net) ==
    IF message = "" \/ webhook_url = "" THEN FALSE ELSE net = "ok"

(***************************************************************************)
(* Bounds and input sets                                                   *)
(***************************************************************************)
MaxRuns == 3

MaxCut == 1

(* the USERS settings tried: no entry with a ':', one user, two users      *)
UsersRawChoices ==
    { <<[colon |-> FALSE, username |-> "alice", steam_id |-> ""]>>,
      <<[colon |-> TRUE, username |-> "alice", steam_id |-> "id-alice"]>>,
      <<[colon |-> TRUE, username |-> "alice", steam_id |-> "id-alice"],
        [colon |-> TRUE, username |-> "bob", steam_id |-> "id-bob"]>> }

(* what the Steam API may answer for a user: every request fails; a game   *)
(* listed as recent with no minutes; a game played recently, with          *)
(* achievements; no recent games, two owned games either side of the       *)
(* owned-games threshold                                                   *)
ApiDown == [recent |-> None, owned |-> None, ach |-> None]

ApiAnswers ==
    { ApiDown,
      [recent |-> Some([has_games |-> TRUE,
                        games |-> <<[appid |-> "10", name |-> "Chess",
                                     playtime_2weeks |-> 0, playtime_forever |-> 0]>>]),
       owned |-> None, ach |-> None],
      [recent |-> Some([has_games |-> TRUE,
                        games |-> <<[appid |-> "10", name |-> "Chess",
                                     playtime_2weeks |-> 1,
                                     playtime_forever |-> AchievementsMinPlaytime + 1]>>]),
       owned |-> None,
       ach |-> Some(<<[apiname |-> "a1", achieved |-> 1],
                      [apiname |-> "a2", achieved |-> 0]>>)],
      [recent |-> Some([has_games |-> FALSE, games |-> << >>]),
       owned |-> Some(<<[appid |-> "10", name |-> "Chess", playtime_2weeks |-> 0,
                        playtime_forever |-> OwnedMinPlaytime + 1],
                       [appid |-> "20", name |-> "Go", playtime_2weeks |-> 0,
                        playtime_forever |-> OwnedMinPlaytime]>>),
       ach |-> None] }

AiOutcomes == {"text", "blank", "empty", "raises"}

NetOutcomes == {"ok", "fails"}

SaveFaults ==
    {NoFault, [at |-> "open", cut |-> 0]} \cup {[at |-> "write", cut |-> c] : c \in 0..MaxCut}

(***************************************************************************)
(* src/main.py: the state of a deployment and of the run in progress       *)
(***************************************************************************)
VARIABLES
    config,              \* the attributes of the config object main reads
    fs,                  \* snapshots/: [dir, today, yesterday]
    pc,                  \* where the run is; "idle" between runs
    runs,                \* runs started so far
    yesterday_snapshot,  \* main's local: the baseline loaded
    today_snapshot,      \* main's local: the snapshot fetched
    summary,             \* main's local
    result,              \* how the last run ended: "True", "False", "crashed"
    posted,              \* whether this run posted a report to Discord
    save_log,            \* what save_snapshot logged in this run
    rotate_log,          \* what rotate_snapshots logged in this run: "rotated",
                         \* "nothing" (no today.json to rotate) or "error"
    env,                 \* this run's environment: [ai, net], what the Gemini call and
                         \* the webhook request do when made
    api_answers,         \* history: what the Steam API answered in this run
    start_fs,            \* history: fs when the run started
    last_ok              \* history: the snapshot fetched by the last run that returned
                         \* True with the snapshot written

mainVars == <<config, fs, pc, runs, yesterday_snapshot, today_snapshot, summary,
              result, posted, save_log, rotate_log, env, api_answers, start_fs,
              last_ok>>

(* the diff engine on its own *)
VARIABLES
    previous,     \* the old snapshot
    current,      \* the new snapshot
    daily_diff,   \* calculate_daily_diff(previous, current), once computed
    diffed,       \* whether daily_diff has been computed
    group_stats,  \* calculate_group_stats(daily_diff), once computed, else None
    report,       \* generate_daily_report(current, previous), once computed, else None
    summary_out   \* the outcome of generate_summary(report, ...), once called, else None

diffVars == <<previous, current, daily_diff, diffed, group_stats, report, summary_out>>

(* the snapshot store on its own *)
VARIABLES
    st_loc,       \* the storage location
    st_snapshot,  \* the snapshot passed to the last save_snapshot
    st_log,       \* what the last save_snapshot logged
    st_out,       \* the outcome of load_snapshot, if called since the last save
    st_op,        \* the last call: "none", "save" or "load"
    st_nodir      \* history: whether the last save found the parent directory missing

storeVars == <<st_loc, st_snapshot, st_log, st_out, st_op, st_nodir>>

(* two runs of main at once on the same snapshots directory *)
VARIABLES
    race_config,    \* the config object both runs read
    race_fs,        \* snapshots/: [dir, today, yesterday]
    race_pc,        \* where each run is
    race_baseline,  \* each run's yesterday_snapshot, None before it is loaded
    race_today,     \* each run's today_snapshot
    race_report,    \* each run's daily_report, None before it is computed
    race_summary,   \* each run's summary
    race_posted,    \* whether each run posted its summary
    race_result     \* what each run returned: "none", "True" or "False"

raceVars == <<race_config, race_fs, race_pc, race_baseline, race_today, race_report,
              race_summary, race_posted, race_result>>

vars == <<mainVars, diffVars, storeVars, raceVars>>

TodayLoc == Location(fs.dir, fs.today)

YesterdayLoc == Location(fs.dir, fs.yesterday)

(* os.path.exists                                                          *)
Exists(f) == f.kind # "absent"

(* line 84: the file main loads as its baseline                            *)
BaselineLoc == YesterdayLoc

(* line 90 left out: an empty snapshot is never taken for a failed fetch   *)
FetchFailed_Never(snapshot) == FALSE

(* line 90                                                                 *)
FetchFailed(snapshot) == ~Truthy(snapshot)

(* line 102                                                                *)
SummaryFailed(text) == text = ""

(* line 50: os.remove(yesterday_file)                                      *)
RemoveYesterday(f) == [f EXCEPT !.yesterday = AbsentFile]

(* line 52 with today.json removed and not moved                          *)
MoveTodayToYesterday_Drop(f) == [f EXCEPT !.today = AbsentFile]

(* line 52: shutil.move(today_file, yesterday_file)                        *)
MoveTodayToYesterday(f) == [f EXCEPT !.yesterday = f.today, !.today = AbsentFile]

(* lines 126-128 and the early returns: main returns False                 *)
ReturnFalse ==
    /\ pc' = "idle"
    /\ result' = "False"

MainInit ==
    /\ config \in {Config(u) : u \in UsersRawChoices}
                  \cup {Append(Config(u), [k |-> "kluster_api_key", v |-> "kluster-key"]) :
                          u \in UsersRawChoices}
    /\ fs = [dir |-> FALSE, today |-> AbsentFile, yesterday |-> AbsentFile]
    /\ pc = "idle"
    /\ runs = 0
    /\ yesterday_snapshot = << >>
    /\ today_snapshot = << >>
    /\ summary = ""
    /\ result = "none"
    /\ posted = FALSE
    /\ save_log = "none"
    /\ rotate_log = "none"
    /\ env = [ai |-> "text", net |-> "ok"]
    /\ api_answers = << >>
    /\ start_fs = fs
    /\ last_ok = None

(* lines 77-84: setup_snapshots, then load_snapshot(yesterday_file)        *)
MainStart ==
    /\ pc = "idle"
    /\ runs < MaxRuns
    /\ runs' = runs + 1
    /\ fs' = [fs EXCEPT !.dir = TRUE]
    /\ start_fs' = fs
    /\ posted' = FALSE
    /\ save_log' = "none"
    /\ rotate_log' = "none"
    /\ today_snapshot' = << >>
    /\ summary' = ""
    /\ api_answers' = << >>
    /\ env' \in [ai : AiOutcomes, net : NetOutcomes]
    /\ LET loaded == load_snapshot([BaselineLoc EXCEPT !.dir = TRUE]) IN
       IF loaded.exc = "none"
       THEN /\ yesterday_snapshot' = loaded.val
            /\ pc' = "fetch"
            /\ result' = "none"
       ELSE /\ yesterday_snapshot' = << >>
            /\ ReturnFalse
    /\ UNCHANGED <<config, last_ok>>
    /\ UNCHANGED <<diffVars, storeVars, raceVars>>

(* lines 88-92                                                             *)
MainFetch ==
    /\ pc = "fetch"
    /\ \E answers \in [KeySet(Get(config, "users", << >>)) -> ApiAnswers] :
         /\ api_answers' = answers
         /\ today_snapshot' = fetch_all_users_snapshot(Get(config, "users", << >>), answers)
         /\ IF FetchFailed(today_snapshot')
            THEN ReturnFalse
            ELSE pc' = "summarise" /\ UNCHANGED result
    /\ UNCHANGED <<config, fs, runs, yesterday_snapshot, summary, posted, save_log, rotate_log,
                   env, start_fs, last_ok>>
    /\ UNCHANGED <<diffVars, storeVars, raceVars>>

(* lines 96-106: the report, then generate_summary(report,                 *)
(* config.kluster_api_key); reading an attribute the config object lacks   *)
(* raises AttributeError, which line 126 turns into return False           *)
MainSummarise ==
    /\ pc = "summarise"
    /\ LET daily_report == generate_daily_report(today_snapshot, yesterday_snapshot)
           text == IF Has(config, "kluster_api_key")
                   THEN generate_summary(daily_report,
                                         Get(config, "kluster_api_key", ""), env.ai)
                   ELSE Raises("AttributeError")
       IN  IF text.exc # "none" \/ SummaryFailed(text.val)
           THEN ReturnFalse /\ UNCHANGED summary
           ELSE /\ summary' = text.val
                /\ pc' = "post"
                /\ UNCHANGED result
    /\ UNCHANGED <<config, fs, runs, yesterday_snapshot, today_snapshot, posted,
                   save_log, rotate_log, env, api_answers, start_fs, last_ok>>
    /\ UNCHANGED <<diffVars, storeVars, raceVars>>

(* lines 110-114                                                           *)
MainPost ==
    /\ pc = "post"
    /\ IF post_to_discord(summary, Get(config, "discord_webhook_url", ""), env.net)
       THEN /\ posted' = TRUE
            /\ pc' = "rotate"
            /\ UNCHANGED result
       ELSE /\ ReturnFalse
            /\ UNCHANGED posted
    /\ UNCHANGED <<config, fs, runs, yesterday_snapshot, today_snapshot, summary,
                   save_log, rotate_log, env, api_answers, start_fs, last_ok>>
    /\ UNCHANGED <<diffVars, storeVars, raceVars>>

(* rotate_snapshots, lines 46-50: nothing to rotate without today.json;    *)
(* else yesterday.json, if there, is removed.  An OSError (failed) is      *)
(* caught at line 68 and ends the rotation.                                *)
RotateRemove ==
    /\ pc = "rotate"
    /\ IF ~Exists(fs.today)
       THEN pc' = "save" /\ rotate_log' = "nothing" /\ UNCHANGED fs
       ELSE IF ~Exists(fs.yesterday)
            THEN pc' = "move" /\ UNCHANGED <<fs, rotate_log>>
            ELSE \E failed \in BOOLEAN :
                   IF failed
                   THEN pc' = "save" /\ rotate_log' = "error" /\ UNCHANGED fs
                   ELSE pc' = "move" /\ fs' = RemoveYesterday(fs) /\ UNCHANGED rotate_log
    /\ UNCHANGED <<config, runs, yesterday_snapshot, today_snapshot, summary, result,
                   posted, save_log, env, api_answers, start_fs, last_ok>>
    /\ UNCHANGED <<diffVars, storeVars, raceVars>>

(* rotate_snapshots, line 52                                               *)
RotateMove ==
    /\ pc = "move"
    /\ \E failed \in BOOLEAN :
         IF failed
         THEN rotate_log' = "error" /\ UNCHANGED fs
         ELSE rotate_log' = "rotated" /\ fs' = MoveTodayToYesterday(fs)
    /\ pc' = "save"
    /\ UNCHANGED <<config, runs, yesterday_snapshot, today_snapshot, summary, result,
                   posted, save_log, env, api_answers, start_fs, last_ok>>
    /\ UNCHANGED <<diffVars, storeVars, raceVars>>

(* lines 121-124: save_snapshot(today_snapshot, today_file), return True   *)
MainSave ==
    /\ pc = "save"
    /\ \E fault \in SaveFaults :
         LET saved == save_snapshot(today_snapshot, TodayLoc, fault) IN
         /\ fs' = [fs EXCEPT !.today = FileAt(saved.loc)]
         /\ save_log' = saved.log
         /\ last_ok' = IF saved.log = "saved" THEN Some(today_snapshot) ELSE last_ok
    /\ pc' = "idle"
    /\ result' = "True"
    /\ UNCHANGED <<config, runs, yesterday_snapshot, today_snapshot, summary, posted,
                   rotate_log, env, api_answers, start_fs>>
    /\ UNCHANGED <<diffVars, storeVars, raceVars>>

(* the process is killed between two steps of a run                        *)
Crash ==
    /\ pc # "idle"
    /\ pc' = "idle"
    /\ result' = "crashed"
    /\ UNCHANGED <<config, fs, runs, yesterday_snapshot, today_snapshot, summary,
                   posted, save_log, rotate_log, env, api_answers, start_fs, last_ok>>
    /\ UNCHANGED <<diffVars, storeVars, raceVars>>

(* the process is killed inside save_snapshot, after open(filepath, 'w')   *)
(* and before the whole text is on disk                                    *)
CrashWhileSaving ==
    /\ pc = "save"
    /\ \E cut \in 0..MaxCut :
         fs' = [fs EXCEPT !.today =
                   FileAt(Write(OpenForWrite(TodayLoc),
                                Prefix(JsonDump(today_snapshot), cut)))]
    /\ pc' = "idle"
    /\ result' = "crashed"
    /\ UNCHANGED <<config, runs, yesterday_snapshot, today_snapshot, summary, posted,
                   save_log, rotate_log, env, api_answers, start_fs, last_ok>>
    /\ UNCHANGED <<diffVars, storeVars, raceVars>>

MainNext ==
    \/ MainStart
    \/ MainFetch
    \/ MainSummarise
    \/ MainPost
    \/ RotateRemove
    \/ RotateMove
    \/ MainSave
    \/ Crash
    \/ CrashWhileSaving

(***************************************************************************)
(* Bounded snapshots for the checks of the store and of the diff engine.   *)
(* A game record carries playtime_forever and, optionally, playtime_2weeks *)
(* and achievements; a user record carries its games.  Users and games are *)
(* listed in the order of UserNames and GameNames.                         *)
(***************************************************************************)
MaxPlaytime == 2

MaxEntries == 4

UserNames == <<"alice", "bob">>

GameNames == <<"Chess", "Go">>

GameRecord(playtime_forever, playtime_2weeks, achievements) ==
    <<[k |-> "playtime_forever", v |-> playtime_forever]>>
    \o (IF playtime_2weeks >= 0
        THEN <<[k |-> "playtime_2weeks", v |-> playtime_2weeks]>> ELSE << >>)
    \o (IF achievements # None
        THEN <<[k |-> "achievements", v |-> achievements[1]]>> ELSE << >>)

(* the records of a current snapshot: with neither optional field, or with *)
(* recent minutes and a list of achievements naming one of them twice      *)
CurrentRecords ==
    {GameRecord(p, -1, None) : p \in 0..MaxPlaytime}
    \cup {GameRecord(p, 1, Some(<<"a2", "a1", "a2">>)) : p \in 0..MaxPlaytime}

(* the records of a previous snapshot: their achievements are listed in    *)
(* another order and are not all among those of a current record           *)
PreviousRecords == {GameRecord(p, -1, Some(<<"a1", "a3">>)) : p \in 0..MaxPlaytime}

RECURSIVE Pick(_, _, _)
Pick(names, chosen, i) ==
    IF i > Len(names) THEN << >>
    ELSE (IF i \in chosen THEN <<names[i]>> ELSE << >>) \o Pick(names, chosen, i + 1)

Picks(names) == {Pick(names, chosen, 1) : chosen \in SUBSET (1..Len(names))}

DictsOver(names, values) ==
    UNION { {[i \in 1..Len(ks) |-> [k |-> ks[i], v |-> f[i]]] : f \in [1..Len(ks) -> values]} :
            ks \in Picks(names) }

UserRecords(records) == {<<[k |-> "games", v |-> g]>> : g \in DictsOver(GameNames, records)}

SnapshotsOver(records) == DictsOver(UserNames, UserRecords(records))

RECURSIVE Entries(_, _)
Entries(snapshot, i) ==
    IF i > Len(snapshot) THEN 0
    ELSE Len(Get(snapshot[i].v, "games", << >>)) + Entries(snapshot, i + 1)

CurrentSnapshots == {n \in SnapshotsOver(CurrentRecords) : Entries(n, 1) <= MaxEntries}

PreviousSnapshots == {o \in SnapshotsOver(PreviousRecords) : Entries(o, 1) <= MaxEntries}

(* the pairs diffed: every snapshot against itself, and every previous     *)
(* snapshot against every current one within MaxEntries game records       *)
DiffPairs ==
    {<<n, n>> : n \in CurrentSnapshots}
    \cup {pair \in PreviousSnapshots \X CurrentSnapshots :
            Entries(pair[1], 1) + Entries(pair[2], 1) <= MaxEntries}

(***************************************************************************)
(* The diff engine on its own: a pair of snapshots, then its diff          *)
(***************************************************************************)
DiffIdle ==
    /\ previous = << >>
    /\ current = << >>
    /\ daily_diff = << >>
    /\ diffed = FALSE
    /\ group_stats = None
    /\ report = None
    /\ summary_out = None

DiffInit ==
    /\ \E pair \in DiffPairs : previous = pair[1] /\ current = pair[2]
    /\ daily_diff = << >>
    /\ diffed = FALSE
    /\ group_stats = None
    /\ report = None
    /\ summary_out = None

CalculateDailyDiff ==
    /\ ~diffed
    /\ daily_diff' = calculate_daily_diff(previous, current)
    /\ diffed' = TRUE
    /\ UNCHANGED <<previous, current, group_stats, report, summary_out>>
    /\ UNCHANGED <<mainVars, storeVars, raceVars>>

(* line 173 of generate_daily_report: the group statistics of the diff     *)
CalculateGroupStats ==
    /\ diffed
    /\ group_stats = None
    /\ group_stats' = Some(calculate_group_stats(daily_diff))
    /\ UNCHANGED <<previous, current, daily_diff, diffed, report, summary_out>>
    /\ UNCHANGED <<mainVars, storeVars, raceVars>>

DiffNext ==
    \/ CalculateDailyDiff
    \/ CalculateGroupStats

(***************************************************************************)
(* The report and its summary on their own: generate_daily_report on a     *)
(* pair of snapshots, then generate_summary on the report, with or without *)
(* an API key and whatever the Gemini call does                            *)
(***************************************************************************)
ApiKeys == {"", "gemini-key"}

(* main.py line 96: generate_daily_report(today_snapshot,                  *)
(* yesterday_snapshot)                                                     *)
GenerateDailyReport ==
    /\ report = None
    /\ report' = Some(generate_daily_report(current, previous))
    /\ UNCHANGED <<previous, current, daily_diff, diffed, group_stats, summary_out>>
    /\ UNCHANGED <<mainVars, storeVars, raceVars>>

(* main.py line 100: generate_summary(daily_report, api_key)               *)
GenerateSummary ==
    /\ report # None
    /\ summary_out = None
    /\ \E api_key \in ApiKeys, ai \in AiOutcomes :
         summary_out' = Some(generate_summary(report[1], api_key, ai))
    /\ UNCHANGED <<previous, current, daily_diff, diffed, group_stats, report>>
    /\ UNCHANGED <<mainVars, storeVars, raceVars>>

ReportNext ==
    \/ GenerateDailyReport
    \/ GenerateSummary

(***************************************************************************)
(* The snapshot store on its own: a storage location in any state, saved   *)
(* to and loaded from                                                      *)
(***************************************************************************)
MaxTokens == 2

Alphabet == {Tok("{"), Tok("}"), Tok("["), Tok("]"), TStr("alice"), TNum(1), BadByte}

Texts == UNION {[1..n -> Alphabet] : n \in 0..MaxTokens}

StoreLocations ==
    {[dir |-> FALSE, kind |-> "absent", data |-> << >>]}
    \cup {[dir |-> TRUE, kind |-> kd, data |-> << >>] : kd \in {"absent", "isdir", "noperm"}}
    \cup {[dir |-> TRUE, kind |-> "file", data |-> ts] : ts \in Texts}

(* main.py lines 235-250: the snapshots of test_snapshot_rotation          *)
MockYesterday ==
    <<[k |-> "user1",
       v |-> <<[k |-> "games",
                v |-> <<[k |-> "Game A",
                         v |-> <<[k |-> "playtime_forever", v |-> 100],
                                 [k |-> "achievements", v |-> <<"ach1">>]>>]>>]>>]>>

MockToday ==
    <<[k |-> "user1",
       v |-> <<[k |-> "games",
                v |-> <<[k |-> "Game A",
                         v |-> <<[k |-> "playtime_forever", v |-> 150],
                                 [k |-> "achievements", v |-> <<"ach1", "ach2">>]>>],
                        [k |-> "Game B",
                         v |-> <<[k |-> "playtime_forever", v |-> 30],
                                 [k |-> "achievements", v |-> <<"new_ach">>]>>]>>]>>]>>

(* the snapshots saved: what the fetch returns, and the two mock snapshots *)
StoreSnapshots ==
    {fetch_all_users_snapshot(ParseUsers(<< >>, u, 1), apis) :
        u \in UsersRawChoices, apis \in [{"alice", "bob"} -> ApiAnswers]}
    \cup {MockYesterday, MockToday}

StoreFaults == SaveFaults \cup {[at |-> "mkdir", cut |-> 0]}

StoreIdle ==
    /\ st_loc = [dir |-> FALSE, kind |-> "absent", data |-> << >>]
    /\ st_snapshot = << >>
    /\ st_log = "none"
    /\ st_out = None
    /\ st_op = "none"
    /\ st_nodir = FALSE

StoreInit ==
    /\ st_loc \in StoreLocations
    /\ st_snapshot = << >>
    /\ st_log = "none"
    /\ st_out = None
    /\ st_op = "none"
    /\ st_nodir = FALSE

SaveSnapshot ==
    /\ \E snapshot \in StoreSnapshots, fault \in StoreFaults :
         LET saved == save_snapshot(snapshot, st_loc, fault) IN
         /\ st_loc' = saved.loc
         /\ st_log' = saved.log
         /\ st_snapshot' = snapshot
    /\ st_op' = "save"
    /\ st_out' = None
    /\ st_nodir' = ~st_loc.dir
    /\ UNCHANGED <<mainVars, diffVars, raceVars>>

LoadSnapshot ==
    /\ st_out' = Some(load_snapshot(st_loc))
    /\ st_op' = "load"
    /\ UNCHANGED <<st_loc, st_snapshot, st_log, st_nodir>>
    /\ UNCHANGED <<mainVars, diffVars, raceVars>>

StoreNext == SaveSnapshot \/ LoadSnapshot

(***************************************************************************)
(* Two runs of main at once on the same snapshots directory.  Each file    *)
(* operation of a run is a step of its own; the directory starts as a      *)
(* sequence of earlier runs can have left it.                              *)
(***************************************************************************)
Runs == {1, 2}

(* a user whose requests all fail, a game listed with no minutes           *)
RaceAnswers ==
    { ApiDown,
      [recent |-> Some([has_games |-> TRUE,
                        games |-> <<[appid |-> "10", name |-> "Chess",
                                     playtime_2weeks |-> 0, playtime_forever |-> 0]>>]),
       owned |-> None, ach |-> None] }

RaceUsers == ParseUsers(<< >>, <<[colon |-> TRUE, username |-> "alice",
                                  steam_id |-> "id-alice"]>>, 1)

RaceSnapshots ==
    {fetch_all_users_snapshot(RaceUsers, answers) :
        answers \in [KeySet(RaceUsers) -> RaceAnswers]}

RaceIdle ==
    /\ race_config = Config(<< >>)
    /\ race_fs = [dir |-> FALSE, today |-> AbsentFile, yesterday |-> AbsentFile]
    /\ race_pc = [p \in Runs |-> "done"]
    /\ race_baseline = [p \in Runs |-> None]
    /\ race_today = [p \in Runs |-> << >>]
    /\ race_report = [p \in Runs |-> None]
    /\ race_summary = [p \in Runs |-> ""]
    /\ race_posted = [p \in Runs |-> FALSE]
    /\ race_result = [p \in Runs |-> "none"]

(* the config object as built or carrying kluster_api_key; no snapshots    *)
(* yet, or today.json alone, or both files, as saved by earlier runs       *)
RaceInit ==
    /\ \E built \in {Config(<<[colon |-> TRUE, username |-> "alice",
                               steam_id |-> "id-alice"]>>)} :
         race_config \in {built,
                          Append(built, [k |-> "kluster_api_key", v |-> "kluster-key"])}
    /\ race_fs \in
         {[dir |-> FALSE, today |-> AbsentFile, yesterday |-> AbsentFile]}
         \cup {[dir |-> TRUE, today |-> RegularFile(JsonDump(t)), yesterday |-> y] :
                 t \in RaceSnapshots,
                 y \in {AbsentFile} \cup {RegularFile(JsonDump(o)) : o \in RaceSnapshots}}
    /\ race_pc = [p \in Runs |-> "idle"]
    /\ race_baseline = [p \in Runs |-> None]
    /\ race_today = [p \in Runs |-> << >>]
    /\ race_report = [p \in Runs |-> None]
    /\ race_summary = [p \in Runs |-> ""]
    /\ race_posted = [p \in Runs |-> FALSE]
    /\ race_result = [p \in Runs |-> "none"]

(* run p returns False                                                     *)
RaceReturnFalse(p) ==
    /\ race_pc' = [race_pc EXCEPT ![p] = "done"]
    /\ race_result' = [race_result EXCEPT ![p] = "False"]

(* main.py lines 80-84: setup_snapshots, then load_snapshot(yesterday_file) *)
RaceLoad(p) ==
    /\ race_fs' = [race_fs EXCEPT !.dir = TRUE]
    /\ LET loaded == load_snapshot(Location(TRUE, race_fs.yesterday)) IN
       IF loaded.exc = "none"
       THEN /\ race_baseline' = [race_baseline EXCEPT ![p] = Some(loaded.val)]
            /\ race_pc' = [race_pc EXCEPT ![p] = "fetch"]
            /\ UNCHANGED race_result
       ELSE /\ RaceReturnFalse(p)
            /\ UNCHANGED race_baseline
    /\ UNCHANGED <<race_config, race_today, race_report, race_summary, race_posted>>
    /\ UNCHANGED <<mainVars, diffVars, storeVars>>

(* lines 76-84 behind a lock held for the whole run                        *)
OtherRunsAllow_Exclusive(p) == \A q \in Runs \ {p} : race_pc[q] \in {"idle", "done"}

(* main.py lines 76-84: main takes no lock and waits for no other run      *)
(* before it loads the baseline                                            *)
OtherRunsAllow(p) == TRUE

(* main.py lines 77-84: a run starts whatever the other run is doing       *)
RaceStart(p) ==
    /\ race_pc[p] = "idle"
    /\ OtherRunsAllow(p)
    /\ RaceLoad(p)

(* main.py lines 88-92                                                     *)
RaceFetch(p) ==
    /\ race_pc[p] = "fetch"
    /\ \E answers \in [KeySet(Get(race_config, "users", << >>)) -> RaceAnswers] :
         /\ race_today' = [race_today EXCEPT ![p] =
                             fetch_all_users_snapshot(Get(race_config, "users", << >>),
                                                      answers)]
         /\ IF FetchFailed(race_today'[p])
            THEN RaceReturnFalse(p)
            ELSE race_pc' = [race_pc EXCEPT ![p] = "summarise"] /\ UNCHANGED race_result
    /\ UNCHANGED <<race_config, race_fs, race_baseline, race_report, race_summary,
                   race_posted>>
    /\ UNCHANGED <<mainVars, diffVars, storeVars>>

(* main.py lines 96-106                                                    *)
RaceSummarise(p) ==
    /\ race_pc[p] = "summarise"
    /\ \E ai \in AiOutcomes :
         LET daily_report == generate_daily_report(race_today[p], race_baseline[p][1])
             text == IF Has(race_config, "kluster_api_key")
                     THEN generate_summary(daily_report,
                                           Get(race_config, "kluster_api_key", ""), ai)
                     ELSE Raises("AttributeError")
         IN  /\ race_report' = [race_report EXCEPT ![p] = Some(daily_report)]
             /\ IF text.exc # "none" \/ SummaryFailed(text.val)
                THEN RaceReturnFalse(p) /\ UNCHANGED race_summary
                ELSE /\ race_summary' = [race_summary EXCEPT ![p] = text.val]
                     /\ race_pc' = [race_pc EXCEPT ![p] = "post"]
                     /\ UNCHANGED race_result
    /\ UNCHANGED <<race_config, race_fs, race_baseline, race_today, race_posted>>
    /\ UNCHANGED <<mainVars, diffVars, storeVars>>

(* main.py lines 110-114                                                   *)
RacePost(p) ==
    /\ race_pc[p] = "post"
    /\ \E net \in NetOutcomes :
         IF post_to_discord(race_summary[p],
                            Get(race_config, "discord_webhook_url", ""), net)
         THEN /\ race_posted' = [race_posted EXCEPT ![p] = TRUE]
              /\ race_pc' = [race_pc EXCEPT ![p] = "rotate"]
              /\ UNCHANGED race_result
         ELSE /\ RaceReturnFalse(p)
              /\ UNCHANGED race_posted
    /\ UNCHANGED <<race_config, race_fs, race_baseline, race_today, race_report,
                   race_summary>>
    /\ UNCHANGED <<mainVars, diffVars, storeVars>>

(* rotate_snapshots line 46: os.path.exists(today_file)                    *)
RaceCheckToday(p) ==
    /\ race_pc[p] = "rotate"
    /\ race_pc' = [race_pc EXCEPT ![p] =
                     IF Exists(race_fs.today) THEN "check_yesterday" ELSE "save"]
    /\ UNCHANGED <<race_config, race_fs, race_baseline, race_today, race_report,
                   race_summary, race_posted, race_result>>
    /\ UNCHANGED <<mainVars, diffVars, storeVars>>

(* rotate_snapshots line 48: os.path.exists(yesterday_file)                *)
RaceCheckYesterday(p) ==
    /\ race_pc[p] = "check_yesterday"
    /\ race_pc' = [race_pc EXCEPT ![p] =
                     IF Exists(race_fs.yesterday) THEN "remove" ELSE "move"]
    /\ UNCHANGED <<race_config, race_fs, race_baseline, race_today, race_report,
                   race_summary, race_posted, race_result>>
    /\ UNCHANGED <<mainVars, diffVars, storeVars>>

(* rotate_snapshots line 50: os.remove(yesterday_file); when the file is   *)
(* gone by now, FileNotFoundError is caught at line 68 and the rotation    *)
(* ends                                                                    *)
RaceRemove(p) ==
    /\ race_pc[p] = "remove"
    /\ IF Exists(race_fs.yesterday)
       THEN /\ race_fs' = RemoveYesterday(race_fs)
            /\ race_pc' = [race_pc EXCEPT ![p] = "move"]
       ELSE /\ race_pc' = [race_pc EXCEPT ![p] = "save"]
            /\ UNCHANGED race_fs
    /\ UNCHANGED <<race_config, race_baseline, race_today, race_report, race_summary,
                   race_posted, race_result>>
    /\ UNCHANGED <<mainVars, diffVars, storeVars>>

(* rotate_snapshots line 52: shutil.move(today_file, yesterday_file),      *)
(* which replaces a yesterday.json put there meanwhile; when today.json is *)
(* gone by now the error is caught at line 68                              *)
RaceMove(p) ==
    /\ race_pc[p] = "move"
    /\ IF Exists(race_fs.today)
       THEN race_fs' = MoveTodayToYesterday(race_fs)
       ELSE UNCHANGED race_fs
    /\ race_pc' = [race_pc EXCEPT ![p] = "save"]
    /\ UNCHANGED <<race_config, race_baseline, race_today, race_report, race_summary,
                   race_posted, race_result>>
    /\ UNCHANGED <<mainVars, diffVars, storeVars>>

(* main.py lines 121-124: save_snapshot(today_snapshot, today_file), then  *)
(* return True                                                             *)
RaceSave(p) ==
    /\ race_pc[p] = "save"
    /\ LET saved == save_snapshot(race_today[p], Location(race_fs.dir, race_fs.today),
                                  NoFault)
       IN  race_fs' = [race_fs EXCEPT !.today = FileAt(saved.loc)]
    /\ race_pc' = [race_pc EXCEPT ![p] = "done"]
    /\ race_result' = [race_result EXCEPT ![p] = "True"]
    /\ UNCHANGED <<race_config, race_baseline, race_today, race_report, race_summary,
                   race_posted>>
    /\ UNCHANGED <<mainVars, diffVars, storeVars>>

RaceNext ==
    \/ \E p \in Runs : RaceStart(p)
    \/ \E p \in Runs : RaceFetch(p)
    \/ \E p \in Runs : RaceSummarise(p)
    \/ \E p \in Runs : RacePost(p)
    \/ \E p \in Runs : RaceCheckToday(p)
    \/ \E p \in Runs : RaceCheckYesterday(p)
    \/ \E p \in Runs : RaceRemove(p)
    \/ \E p \in Runs : RaceMove(p)
    \/ \E p \in Runs : RaceSave(p)

(***************************************************************************)
(* Specifications                                                          *)
(***************************************************************************)
Init == MainInit /\ DiffIdle /\ StoreIdle /\ RaceIdle

Next == MainNext

Spec == Init /\ [][Next]_vars

MainIdle ==
    /\ config = Config(<< >>)
    /\ fs = [dir |-> FALSE, today |-> AbsentFile, yesterday |-> AbsentFile]
    /\ pc = "idle"
    /\ runs = 0
    /\ yesterday_snapshot = << >>
    /\ today_snapshot = << >>
    /\ summary = ""
    /\ result = "none"
    /\ posted = FALSE
    /\ save_log = "none"
    /\ rotate_log = "none"
    /\ env = [ai |-> "text", net |-> "ok"]
    /\ api_answers = << >>
    /\ start_fs = fs
    /\ last_ok = None

InitDiff == MainIdle /\ DiffInit /\ StoreIdle /\ RaceIdle

NextDiff == DiffNext

InitReport == MainIdle /\ DiffInit /\ StoreIdle /\ RaceIdle

NextReport == ReportNext

SpecReport == InitReport /\ [][NextReport]_vars

InitRace == MainIdle /\ DiffIdle /\ StoreIdle /\ RaceInit

NextRace == RaceNext

SpecRace == InitRace /\ [][NextRace]_vars

SpecDiff == InitDiff /\ [][NextDiff]_vars

InitStore == MainIdle /\ DiffIdle /\ StoreInit /\ RaceIdle

NextStore == StoreNext

SpecStore == InitStore /\ [][NextStore]_vars

(***************************************************************************)
(* Claims about the orchestration (checked under Spec)                     *)
(***************************************************************************)
RunOver == pc = "idle" /\ result \in {"True", "False"}

RunAborted == pc = "idle" /\ result = "crashed"

FilesAsAtStart == fs.today = start_fs.today /\ fs.yesterday = start_fs.yesterday

(* what the next run would load as its baseline                            *)
NextBaseline == load_snapshot([BaselineLoc EXCEPT !.dir = TRUE])

C3_FailedRunLeavesFiles ==
    /\ pc \in {"summarise", "post", "rotate", "move", "save"} => Truthy(today_snapshot)
    /\ pc \in {"post", "rotate", "move", "save"} => summary # ""
    /\ pc \in {"rotate", "move", "save"} => posted
    /\ RunOver /\ result = "True" => Truthy(today_snapshot) /\ summary # "" /\ posted
    /\ RunOver /\ result = "False"
         => /\ FilesAsAtStart
            /\ save_log = "none"
            /\ NextBaseline = Returns(yesterday_snapshot)

(* a run whose post failed, with both files there when it started          *)
C3_Witness ==
    /\ RunOver /\ result = "False"
    /\ summary # "" /\ ~posted
    /\ Exists(start_fs.today) /\ Exists(start_fs.yesterday)

SummarizerYields ==
    generate_summary(generate_daily_report(today_snapshot, yesterday_snapshot),
                     Get(config, "gemini_api_key", ""), env.ai)

(* C5: a run whose fetch returns a non-empty snapshot, whose summarizer    *)
(* yields a non-empty summary and whose delivery succeeds returns True,    *)
(* and has then written the fetched snapshot to today.json.                *)
C5_GoodRunReturnsTrue ==
    ( /\ RunOver
      /\ Truthy(today_snapshot)
      /\ SummarizerYields.exc = "none" /\ SummarizerYields.val # ""
      /\ env.net = "ok" )
    => /\ result = "True"
       /\ save_log = "saved" => load_snapshot(TodayLoc) = Returns(today_snapshot)

HoldsJson(loc) ==
    loc.dir /\ loc.kind = "file" /\ Decodes(loc.data) /\ JsonLoads(loc.data).ok

(* C7: load_snapshot never raises, and returns the empty mapping when      *)
(* nothing is stored at the path or what is stored is unreadable or        *)
(* corrupt.                                                                *)
C7_LoadFailsSoft ==
    st_out # None
      => /\ st_out[1].exc = "none"
         /\ ~HoldsJson(st_loc) => st_out[1].val = << >>

(* C8: after a successful save_snapshot(S, p) the parent directory exists  *)
(* and load_snapshot(p) returns S.                                         *)
C8_SaveLoadRoundTrip ==
    st_log = "saved"
      => /\ st_loc.dir
         /\ st_op = "load" => st_out = Some(Returns(st_snapshot))

(* the snapshot of two games with achievements, saved where the parent     *)
(* directory was missing, and loaded back                                  *)
C8_Witness ==
    /\ st_op = "load" /\ st_log = "saved" /\ st_nodir
    /\ st_snapshot = MockToday
    /\ st_out = Some(Returns(MockToday))

(***************************************************************************)
(* Claims about the diff engine (checked under SpecDiff)                   *)
(***************************************************************************)
GamesOf(snapshot, username) == Get(Get(snapshot, username, << >>), "games", << >>)

PlaytimeForever(snapshot, username, game_name) ==
    Get(Get(GamesOf(snapshot, username), game_name, << >>), "playtime_forever", 0)

PlaytimeTwoWeeks(snapshot, username, game_name) ==
    Get(Get(GamesOf(snapshot, username), game_name, << >>), "playtime_2weeks", 0)

UserDiffOf(username) == Get(daily_diff, username, EmptyUserDiff)

(* the entries (user, game) of the current snapshot                        *)
CurrentEntries ==
    UNION { {<<u, g>> : g \in KeySet(GamesOf(current, u))} : u \in KeySet(current) }

(* C9: calculate_daily_diff(S, S) gives every user of S total_minutes 0    *)
(* and an empty played mapping.                                            *)
C9_NoOpDiff ==
    diffed /\ previous = current
      => /\ KeySet(daily_diff) = KeySet(current)
         /\ \A u \in KeySet(current) :
              /\ Has(daily_diff, u)
              /\ UserDiffOf(u).total_minutes = 0
              /\ UserDiffOf(u).played = << >>

(* a snapshot with a game of positive playtime and recent minutes, diffed  *)
(* against itself                                                          *)
C9_Witness ==
    /\ diffed /\ previous = current
    /\ \E e \in CurrentEntries :
         /\ PlaytimeForever(current, e[1], e[2]) > 0
         /\ PlaytimeTwoWeeks(current, e[1], e[2]) > 0
         /\ UserDiffOf(e[1]).played = << >>

(* the delta recorded for a game: its entry in played, 0 when it has none  *)
RecordedDelta(e) == Get(UserDiffOf(e[1]).played, e[2], 0)

Recorded(e) == Has(UserDiffOf(e[1]).played, e[2])

MonotonicDelta(e) ==
    LET new == PlaytimeForever(current, e[1], e[2])
        old == PlaytimeForever(previous, e[1], e[2])
    IN  /\ new >= old => RecordedDelta(e) = new - old
        /\ new < old => ~Recorded(e)
        /\ Recorded(e) => RecordedDelta(e) > 0

(* the first-run fallback of line 66 applies to the entry                  *)
FallbackApplies(e) ==
    ~Truthy(previous) /\ PlaytimeTwoWeeks(current, e[1], e[2]) > 0

(* C10 as stated: for every game of every user of the new snapshot, the    *)
(* delta recorded is new - old playtime_forever where new >= old, and no   *)
(* delta is recorded where new < old.                                      *)
C10_MonotonicDelta ==
    diffed => \A e \in CurrentEntries : MonotonicDelta(e)

(* C10 amended: the same, for the games the first-run fallback does not    *)
(* apply to (the old snapshot is not empty, or the game has no positive    *)
(* playtime_2weeks); where it applies the delta recorded is                *)
(* playtime_2weeks.                                                        *)
C10_MonotonicDeltaOutsideFallback ==
    diffed => \A e \in CurrentEntries :
                IF FallbackApplies(e)
                THEN RecordedDelta(e) = PlaytimeTwoWeeks(current, e[1], e[2])
                ELSE MonotonicDelta(e)

(* one game that gained minutes over a positive old playtime, one whose    *)
(* playtime went down                                                      *)
C10_Witness ==
    /\ diffed
    /\ \E e \in CurrentEntries :
         /\ PlaytimeForever(previous, e[1], e[2]) > 0
         /\ PlaytimeForever(current, e[1], e[2]) > PlaytimeForever(previous, e[1], e[2])
         /\ Recorded(e)
    /\ \E e \in CurrentEntries :
         /\ PlaytimeForever(current, e[1], e[2]) < PlaytimeForever(previous, e[1], e[2])
         /\ ~Recorded(e)

(* C11: when the old snapshot is empty, every game of the new snapshot     *)
(* whose playtime_2weeks is positive is recorded in played with            *)
(* playtime_2weeks as its minutes, not playtime_forever.                   *)
C11_FirstRunUsesTwoWeeks ==
    diffed /\ previous = << >>
      => \A e \in CurrentEntries :
           PlaytimeTwoWeeks(current, e[1], e[2]) > 0
             => /\ Recorded(e)
                /\ RecordedDelta(e) = PlaytimeTwoWeeks(current, e[1], e[2])

(* an empty old snapshot and a game whose playtime_forever is not its      *)
(* playtime_2weeks, recorded with the latter                               *)
C11_Witness ==
    /\ diffed /\ previous = << >>
    /\ \E e \in CurrentEntries :
         /\ PlaytimeTwoWeeks(current, e[1], e[2]) > 0
         /\ PlaytimeForever(current, e[1], e[2]) > PlaytimeTwoWeeks(current, e[1], e[2])
         /\ RecordedDelta(e) = PlaytimeTwoWeeks(current, e[1], e[2])

(* C12: for a user of the new snapshot that has no record in the old one,  *)
(* whether or not the old snapshot holds other users, every game with a    *)
(* positive playtime_2weeks is recorded with playtime_2weeks as its delta. *)
C12_FallbackPerUser ==
    diffed => \A e \in CurrentEntries :
                ~Has(previous, e[1]) /\ PlaytimeTwoWeeks(current, e[1], e[2]) > 0
                  => /\ Recorded(e)
                     /\ RecordedDelta(e) = PlaytimeTwoWeeks(current, e[1], e[2])

(* C13: for a user of the new snapshot that has no record in the old one,  *)
(* a game without a positive playtime_2weeks has no entry in played and is *)
(* listed in new_games; such a user is no player of any game of            *)
(* games_played_together through that game.                                *)
C13_NoBaselineNoSignalNoDelta ==
    /\ diffed => \A e \in CurrentEntries :
                   ~Has(previous, e[1]) /\ PlaytimeTwoWeeks(current, e[1], e[2]) = 0
                     => /\ ~Recorded(e)
                        /\ e[2] \in ListSet(UserDiffOf(e[1]).new_games)
    /\ group_stats # None
         => \A i \in 1..Len(group_stats[1].games_played_together) :
              LET together == group_stats[1].games_played_together[i] IN
              \A u \in ListSet(together.players) :
                ~(~Has(previous, u) /\ PlaytimeTwoWeeks(current, u, together.name) = 0)

(* the games of a user's record in a snapshot                              *)
GameNamesOf(snapshot, username) == KeySet(GamesOf(snapshot, username))

(* a list naming each of its elements once                                 *)
NoRepeats(list) == Cardinality(ListSet(list)) = Len(list)

(* C14: for every user of the new snapshot, new_games lists exactly the    *)
(* games of the user's new record that the user's old game mapping lacks,  *)
(* each once, whatever the game's delta.                                   *)
C14_NewGamesAreGamesAbsentFromOld ==
    diffed => \A u \in KeySet(current) :
                /\ ListSet(UserDiffOf(u).new_games)
                     = GameNamesOf(current, u) \ GameNamesOf(previous, u)
                /\ NoRepeats(UserDiffOf(u).new_games)

(* a new game with a positive delta, a new game with none, and a game the  *)
(* old record already had                                                  *)
C14_Witness ==
    /\ diffed
    /\ \E e \in CurrentEntries :
         e[2] \in ListSet(UserDiffOf(e[1]).new_games) /\ Recorded(e)
    /\ \E e \in CurrentEntries :
         e[2] \in ListSet(UserDiffOf(e[1]).new_games) /\ ~Recorded(e)
    /\ \E e \in CurrentEntries :
         /\ e[2] \in GameNamesOf(previous, e[1])
         /\ e[2] \notin ListSet(UserDiffOf(e[1]).new_games)

(* C15: the users of the diff are exactly the users of the new snapshot,   *)
(* and every game named in a user's played, achievements or new_games is a *)
(* game of that user's new record.                                         *)
C15_DiffCoversNewSnapshotOnly ==
    diffed => /\ KeySet(daily_diff) = KeySet(current)
              /\ Len(daily_diff) = Len(current)
              /\ \A u \in KeySet(daily_diff) :
                   KeySet(UserDiffOf(u).played) \cup KeySet(UserDiffOf(u).achievements)
                     \cup ListSet(UserDiffOf(u).new_games)
                       \subseteq GameNamesOf(current, u)

(* a user only the old snapshot has, and a game only the old record of a   *)
(* user of both snapshots has                                              *)
C15_Witness ==
    /\ diffed
    /\ \E u \in KeySet(previous) : u \notin KeySet(current) /\ ~Has(daily_diff, u)
    /\ \E u \in KeySet(current) :
         /\ GameNamesOf(current, u) # {}
         /\ GameNamesOf(previous, u) \ GameNamesOf(current, u) # {}

(* the achievement ids of a game's record in a snapshot                    *)
AchievementIds(snapshot, username, game_name) ==
    ListSet(Get(Get(GamesOf(snapshot, username), game_name, << >>), "achievements", << >>))

(* C16: for every game with a recorded delta, achievements[game] is        *)
(* present iff the new achievement ids less the old ones are not empty,    *)
(* and then lists exactly those ids, each once.                            *)
C16_AchievementsAreSetDifference ==
    diffed => \A e \in CurrentEntries :
                Recorded(e)
                  => LET ids == AchievementIds(current, e[1], e[2])
                                  \ AchievementIds(previous, e[1], e[2])
                         listed == Get(UserDiffOf(e[1]).achievements, e[2], << >>)
                     IN  /\ Has(UserDiffOf(e[1]).achievements, e[2]) <=> ids # {}
                         /\ ListSet(listed) = ids
                         /\ NoRepeats(listed)

(* a played game whose new list names an id twice and whose old list holds *)
(* an id the new one lacks, and a played game without new achievements     *)
C16_Witness ==
    /\ diffed
    /\ \E e \in CurrentEntries :
         /\ Recorded(e)
         /\ AchievementIds(previous, e[1], e[2]) \ AchievementIds(current, e[1], e[2]) # {}
         /\ AchievementIds(previous, e[1], e[2]) \cap AchievementIds(current, e[1], e[2]) # {}
         /\ Get(UserDiffOf(e[1]).achievements, e[2], << >>) = <<"a2">>
    /\ \E e \in CurrentEntries :
         Recorded(e) /\ ~Has(UserDiffOf(e[1]).achievements, e[2])

RECURSIVE SumValues(_, _)
SumValues(d, i) == IF i > Len(d) THEN 0 ELSE d[i].v + SumValues(d, i + 1)

(* C17: in every user's diff the values of played are positive,            *)
(* total_minutes is their sum and games_played their number.               *)
C17_UserDiffWellFormed ==
    diffed => \A i \in 1..Len(daily_diff) :
                LET ud == daily_diff[i].v IN
                /\ \A j \in 1..Len(ud.played) : ud.played[j].v > 0
                /\ NoRepeats([j \in 1..Len(ud.played) |-> ud.played[j].k])
                /\ ud.total_minutes = SumValues(ud.played, 1)
                /\ ud.games_played = Len(ud.played)

(* a user with two played games of different minutes, and a game whose     *)
(* playtime went down, left out of played                                  *)
C17_Witness ==
    /\ diffed
    /\ \E u \in KeySet(current) :
         /\ Len(UserDiffOf(u).played) = 2
         /\ UserDiffOf(u).played[1].v # UserDiffOf(u).played[2].v
         /\ UserDiffOf(u).total_minutes = 3
    /\ \E e \in CurrentEntries :
         /\ PlaytimeForever(current, e[1], e[2]) < PlaytimeForever(previous, e[1], e[2])
         /\ ~Recorded(e)

(***************************************************************************)
(* Claims about the group statistics (checked under SpecDiff)              *)
(***************************************************************************)
RECURSIVE SumTotalMinutes(_, _)
SumTotalMinutes(diff, i) ==
    IF i > Len(diff) THEN 0
    ELSE diff[i].v.total_minutes + SumTotalMinutes(diff, i + 1)

(* C18: total_group_minutes is the sum of total_minutes over the users of  *)
(* the diff.                                                               *)
C18_GroupMinutesIsSumOfUsers ==
    group_stats # None
      => group_stats[1].total_group_minutes = SumTotalMinutes(daily_diff, 1)

(* two users with minutes played, of different totals                      *)
C18_Witness ==
    /\ group_stats # None
    /\ Len(daily_diff) = 2
    /\ daily_diff[1].v.total_minutes > 0
    /\ daily_diff[2].v.total_minutes > daily_diff[1].v.total_minutes
    /\ group_stats[1].total_group_minutes
         = daily_diff[1].v.total_minutes + daily_diff[2].v.total_minutes

(* the users whose played map holds the game, in the diff's order          *)
RECURSIVE PlayersInOrder(_, _)
PlayersInOrder(game_name, i) ==
    IF i > Len(daily_diff) THEN << >>
    ELSE (IF Has(daily_diff[i].v.played, game_name) THEN <<daily_diff[i].k>> ELSE << >>)
         \o PlayersInOrder(game_name, i + 1)

(* the minutes all users played the game                                   *)
RECURSIVE MinutesOn(_, _)
MinutesOn(game_name, i) ==
    IF i > Len(daily_diff) THEN 0
    ELSE Get(daily_diff[i].v.played, game_name, 0) + MinutesOn(game_name, i + 1)

PlayedGames == UNION {KeySet(daily_diff[i].v.played) : i \in 1..Len(daily_diff)}

(* C19: games_played_together has one entry for each game in the played    *)
(* map of two or more users and none for any other game; an entry lists    *)
(* those users, each once, in the order first seen, and its total_minutes  *)
(* is the sum of their deltas for the game.                                *)
C19_PlayedTogether ==
    group_stats # None
      => LET together == group_stats[1].games_played_together IN
         /\ {together[i].name : i \in 1..Len(together)}
              = {g \in PlayedGames : Len(PlayersInOrder(g, 1)) >= 2}
         /\ NoRepeats([i \in 1..Len(together) |-> together[i].name])
         /\ \A i \in 1..Len(together) :
              /\ together[i].players = PlayersInOrder(together[i].name, 1)
              /\ NoRepeats(together[i].players)
              /\ together[i].total_minutes = MinutesOn(together[i].name, 1)

(* a game two users played for different minutes, and a game only one of   *)
(* them played                                                             *)
C19_Witness ==
    /\ group_stats # None
    /\ Len(group_stats[1].games_played_together) = 1
    /\ group_stats[1].games_played_together[1].players = <<"alice", "bob">>
    /\ group_stats[1].games_played_together[1].total_minutes = 3
    /\ \E g \in PlayedGames : Len(PlayersInOrder(g, 1)) = 1

(* C20: for a diff with users, most_active_player is a user of maximal     *)
(* total_minutes, the first such user in the diff's order.                 *)
C20_MostActiveIsFirstMaximum ==
    group_stats # None /\ Len(daily_diff) > 0
      => /\ group_stats[1].most_active_player # None
         /\ \E i \in 1..Len(daily_diff) :
              /\ daily_diff[i].k = group_stats[1].most_active_player[1]
              /\ \A j \in 1..Len(daily_diff) :
                   daily_diff[j].v.total_minutes <= daily_diff[i].v.total_minutes
              /\ \A j \in 1..(i - 1) :
                   daily_diff[j].v.total_minutes < daily_diff[i].v.total_minutes

(* two users tied on a positive total: the first one is named              *)
C20_Witness ==
    /\ group_stats # None
    /\ Len(daily_diff) = 2
    /\ daily_diff[1].v.total_minutes > 0
    /\ daily_diff[1].v.total_minutes = daily_diff[2].v.total_minutes
    /\ group_stats[1].most_active_player = Some(daily_diff[1].k)

(* the entries of every user's played map, in the order the loops of       *)
(* calculate_group_stats meet them                                         *)
RECURSIVE PlayedTriples(_)
PlayedTriples(i) ==
    IF i > Len(daily_diff) THEN << >>
    ELSE [j \in 1..Len(daily_diff[i].v.played) |->
            [player |-> daily_diff[i].k,
             game |-> daily_diff[i].v.played[j].k,
             minutes |-> daily_diff[i].v.played[j].v]]
         \o PlayedTriples(i + 1)

(* where the game is first met                                             *)
FirstSeen(game_name) ==
    LET seen == PlayedTriples(1) IN
    CHOOSE i \in 1..Len(seen) :
      seen[i].game = game_name /\ \A j \in 1..(i - 1) : seen[j].game # game_name

(* C21: most_played_game is None iff no user has a played entry; otherwise *)
(* it names the game of maximal rolled-up minutes, the first met of those, *)
(* with that game's rolled-up minutes and players.                         *)
C21_MostPlayedGame ==
    group_stats # None
      => LET most_played == group_stats[1].most_played_game IN
         /\ most_played = None <=> PlayedGames = {}
         /\ most_played # None
              => /\ most_played[1].name \in PlayedGames
                 /\ \A g \in PlayedGames :
                      /\ MinutesOn(g, 1) <= MinutesOn(most_played[1].name, 1)
                      /\ MinutesOn(g, 1) = MinutesOn(most_played[1].name, 1)
                           => FirstSeen(most_played[1].name) <= FirstSeen(g)
                 /\ most_played[1].total_minutes = MinutesOn(most_played[1].name, 1)
                 /\ most_played[1].players = PlayersInOrder(most_played[1].name, 1)

(* two games tied on their minutes, the one met first being the second of  *)
(* GameNames, and named                                                    *)
C21_Witness ==
    /\ group_stats # None
    /\ PlayedGames = {"Chess", "Go"}
    /\ MinutesOn("Chess", 1) = MinutesOn("Go", 1)
    /\ FirstSeen("Go") < FirstSeen("Chess")
    /\ group_stats[1].most_played_game # None
    /\ group_stats[1].most_played_game[1].name = "Go"

(* C22: longest_session is None iff no user has a played entry; otherwise  *)
(* it is an entry of its player's played map of maximal minutes, the first *)
(* met of those.                                                           *)
C22_LongestSession ==
    group_stats # None
      => LET longest == group_stats[1].longest_session
             seen == PlayedTriples(1)
         IN  /\ longest = None <=> Len(seen) = 0
             /\ longest # None
                  => \E i \in 1..Len(seen) :
                       /\ seen[i] = longest[1]
                       /\ Get(UserDiffOf(longest[1].player).played, longest[1].game, 0)
                            = longest[1].minutes
                       /\ \A j \in 1..Len(seen) : seen[j].minutes <= seen[i].minutes
                       /\ \A j \in 1..(i - 1) : seen[j].minutes < seen[i].minutes

(* three entries, the last two tied on the maximum: the second is named    *)
C22_Witness ==
    /\ group_stats # None
    /\ LET seen == PlayedTriples(1) IN
       /\ Len(seen) = 3
       /\ seen[1].minutes < seen[2].minutes
       /\ seen[2].minutes = seen[3].minutes
       /\ group_stats[1].longest_session = Some(seen[2])

(* C23: total_achievements is the number of achievement ids listed over    *)
(* all users and all games of their achievements maps.                     *)
C23_TotalAchievements ==
    group_stats # None
      => group_stats[1].total_achievements
           = Cardinality(UNION { UNION { {<<i, j, k>> :
                                            k \in 1..Len(daily_diff[i].v.achievements[j].v)} :
                                         j \in 1..Len(daily_diff[i].v.achievements)} :
                                 i \in 1..Len(daily_diff)})

(* two users with achievements, one of them for two games, the lists of    *)
(* different lengths                                                       *)
C23_Witness ==
    /\ group_stats # None
    /\ Len(daily_diff) = 2
    /\ Len(daily_diff[1].v.achievements) = 2
    /\ Len(daily_diff[2].v.achievements) = 1
    /\ Len(daily_diff[1].v.achievements[1].v) # Len(daily_diff[1].v.achievements[2].v)
    /\ group_stats[1].total_achievements >= 4

(* C24: new_games_discovered holds the names of the union of every user's  *)
(* new_games, each once, and no other name.                                *)
C24_NewGamesDiscovered ==
    group_stats # None
      => /\ ListSet(group_stats[1].new_games_discovered)
              = UNION {ListSet(daily_diff[i].v.new_games) : i \in 1..Len(daily_diff)}
         /\ NoRepeats(group_stats[1].new_games_discovered)

(* a game new for both users and a game new for the first one only         *)
C24_Witness ==
    /\ group_stats # None
    /\ Len(daily_diff) = 2
    /\ ListSet(daily_diff[1].v.new_games) = {"Chess", "Go"}
    /\ ListSet(daily_diff[2].v.new_games) = {"Chess"}
    /\ Len(group_stats[1].new_games_discovered) = 2

(* C29: most_active_player is None only for a diff without users; for a    *)
(* diff with users none of whom has minutes, it names a user while         *)
(* most_played_game and longest_session are None.                          *)
C29_MostActiveWithoutActivity ==
    group_stats # None
      => /\ group_stats[1].most_active_player = None <=> Len(daily_diff) = 0
         /\ Len(daily_diff) > 0 /\ ~HasActivity(daily_diff)
              => /\ group_stats[1].most_active_player # None
                 /\ group_stats[1].most_active_player[1] \in KeySet(daily_diff)
                 /\ group_stats[1].most_played_game = None
                 /\ group_stats[1].longest_session = None

(* two users with games and no minutes played: the first one is named      *)
C29_Witness ==
    /\ group_stats # None
    /\ Len(daily_diff) = 2
    /\ ~HasActivity(daily_diff)
    /\ \A u \in KeySet(current) : GameNamesOf(current, u) # {}
    /\ group_stats[1].most_active_player = Some("alice")
    /\ group_stats[1].most_played_game = None

(***************************************************************************)
(* Claims about the report and its summary (checked under SpecReport)      *)
(***************************************************************************)
(* C25: for an empty new snapshot and any old one, the report has          *)
(* has_activity false and group statistics with zero totals, empty lists   *)
(* and no most active player, most played game or longest session.         *)
C25_EmptySnapshotReport ==
    report # None /\ current = << >>
      => /\ report[1].individual_stats = << >>
         /\ report[1].has_activity = FALSE
         /\ report[1].group_stats.total_group_minutes = 0
         /\ report[1].group_stats.total_achievements = 0
         /\ report[1].group_stats.games_played_together = << >>
         /\ report[1].group_stats.new_games_discovered = << >>
         /\ report[1].group_stats.most_active_player = None
         /\ report[1].group_stats.most_played_game = None
         /\ report[1].group_stats.longest_session = None

(* the report of an empty new snapshot against an old one with two users   *)
(* and playtime                                                            *)
C25_Witness ==
    /\ report # None
    /\ current = << >>
    /\ Len(previous) = 2
    /\ \E u \in KeySet(previous) : \E g \in GameNamesOf(previous, u) :
         PlaytimeForever(previous, u, g) > 0
    /\ report[1].has_activity = FALSE

(* C26: the report holds the diff of the old and the new snapshot, the     *)
(* group statistics of that diff, and has_activity true iff some user has  *)
(* total_minutes > 0, iff total_group_minutes > 0.                         *)
C26_ReportComposes ==
    report # None
      => /\ report[1].individual_stats = calculate_daily_diff(previous, current)
         /\ report[1].group_stats = calculate_group_stats(report[1].individual_stats)
         /\ report[1].has_activity
              <=> \E i \in 1..Len(report[1].individual_stats) :
                    report[1].individual_stats[i].v.total_minutes > 0
         /\ report[1].has_activity <=> report[1].group_stats.total_group_minutes > 0

(* a report with one user with minutes and one without, over snapshots     *)
(* that differ                                                             *)
C26_Witness ==
    /\ report # None
    /\ previous # << >> /\ previous # current
    /\ Len(report[1].individual_stats) = 2
    /\ report[1].individual_stats[1].v.total_minutes = 0
    /\ report[1].individual_stats[2].v.total_minutes > 0
    /\ report[1].has_activity

(* C30: generate_summary returns a non-empty string for every report and   *)
(* never raises.                                                           *)
C30_SummaryNeverFails ==
    summary_out # None
      => /\ summary_out[1].exc = "none"
         /\ summary_out[1].val # ""

(***************************************************************************)
(* Claims about the rotation (checked under Spec)                          *)
(***************************************************************************)
(* C28: after a run that posted, rotated without error and saved,          *)
(* today.json holds the snapshot the run fetched and yesterday.json holds  *)
(* what today.json held when the run started, or what it held itself when  *)
(* there was no today.json.                                                *)
C28_RotateThenSave ==
    RunOver /\ result = "True" /\ save_log = "saved"
            /\ rotate_log \in {"rotated", "nothing"}
      => /\ posted
         /\ fs.today = RegularFile(JsonDump(today_snapshot))
         /\ fs.yesterday = IF Exists(start_fs.today) THEN start_fs.today
                           ELSE start_fs.yesterday
         /\ rotate_log = "rotated" <=> Exists(start_fs.today)

(* a run that started with both files, of different content, and fetched   *)
(* a third snapshot: yesterday.json now holds the old today.json           *)
C28_Witness ==
    /\ RunOver /\ result = "True" /\ save_log = "saved" /\ rotate_log = "rotated"
    /\ Exists(start_fs.today) /\ Exists(start_fs.yesterday)
    /\ start_fs.today # start_fs.yesterday
    /\ fs.yesterday = start_fs.today
    /\ fs.today # fs.yesterday

====
